---- MODULE Spec2Model ----
(***************************************************************************)
(* The PostgreSQL client interface for charms.reactive (requires.py).      *)
(*                                                                         *)
(* A Python str is modelled as a sequence of atoms.  An atom is either one *)
(* character that the code treats specially (" ", "=", "\\", "'") or an    *)
(* opaque run of ordinary characters ("client/0", "orders"), so the        *)
(* concatenation of two atoms that are not spaces is one longer word.      *)
(* A Python object is a record; the object None is the record None.        *)
(***************************************************************************)
EXTENDS Integers, Sequences, FiniteSets, TLC

VARIABLES
    relations,      \* context.Relations()[relname]: relid -> unit -> reldata
    local,          \* context.Relations()[relname][relid].local: relid -> locdata
    states,         \* charms.reactive states: pairs <<flag, conversation>>
    conversations,  \* live conversations of the relation (one per relation id)
    hook,           \* the hook being dispatched: name, relation_id, remote_unit
    pending,        \* handlers of the dispatched hook that have not run yet
    ret,            \* what the last call of the API returned
    held,           \* the objects the caller holds: variable name -> object
    _keys           \* the class attribute ConnectionString._keys

vars == <<relations, local, states, conversations, hook, pending, ret, held, _keys>>

---------------------------------------------------------------------------
(* Bounds of the model. *)

\* Longest allowed-units value, in atoms, that the _cs specification draws.
MaxAllowedLen == 3

\* Most remote unit records the relation snapshot holds at a time.
MaxRelated == 3

\* Longest keyword value, in atoms, over the alphabet of special characters
\* that the ConnectionString specification draws.
MaxValueLen == 2

---------------------------------------------------------------------------
(* The deployment: one relation name, its instances and the units. *)

RelationName == "db"

\* Relation ids, in the order context.Relations() enumerates them (sorted).
RelIds == <<"db:1", "db:2">>

RelIdSet == {RelIds[i] : i \in DOMAIN RelIds}

\* Remote units, in the order a context.Relation enumerates them (sorted).
UnitOrder == <<"pg/0", "pg/1", "pg/2">>

Units == {UnitOrder[i] : i \in DOMAIN UnitOrder}

\* hookenv.local_unit()
LocalUnit == <<"client/0">>

\* The Python object None.
None == [py |-> "None"]

\* A KeyError that propagated to the caller.
KeyError == [py |-> "KeyError"]

\* The empty dict.
EmptyDict == [k \in {} |-> <<>>]

\* The variables in which the caller keeps objects: c and d a
\* ConnectionString each, cs a ConnectionStrings.
Names == {"c", "d", "cs"}

\* A variable that is not bound to an object.
Unbound == [py |-> "unbound"]

---------------------------------------------------------------------------
(* Strings. *)

\* All strings of at most n atoms over the alphabet A.
Strings(A, n) == UNION {[1..k -> A] : k \in 0..n}

\* Length of the leading run of non-space atoms of s.
RECURSIVE WordLen(_)
WordLen(s) ==
    IF s = <<>> \/ Head(s) = " " THEN 0 ELSE 1 + WordLen(Tail(s))

\* A split that cuts between any two atoms: "client/0" "1" becomes two words.
RECURSIVE SplitEveryAtom(_)
SplitEveryAtom(s) ==
    IF s = <<>> THEN <<>>
    ELSE IF Head(s) = " " THEN SplitEveryAtom(Tail(s))
    ELSE <<SubSeq(s, 1, 1)>> \o SplitEveryAtom(Tail(s))

\* str.split(): the maximal runs of non-whitespace, in order.
RECURSIVE Split(_)
Split(s) ==
    IF s = <<>> THEN <<>>
    ELSE IF Head(s) = " " THEN Split(Tail(s))
    ELSE <<SubSeq(s, 1, WordLen(s))>> \o Split(SubSeq(s, WordLen(s) + 1, Len(s)))

\* x in list
InList(x, l) == \E i \in DOMAIN l : l[i] = x

---------------------------------------------------------------------------
(* Relation data. *)

Keys == {"host", "port", "database", "user", "password", "state", "allowed-units"}

\* dict.get(k, default).  A missing key of reldata.get(k) gives Python's
\* None, which the code only ever tests for truth or compares with a
\* non-empty literal; it is written as the empty (falsy) string.
Get(d, k, default) == IF k \in DOMAIN d THEN d[k] ELSE default

\* The relation data of a unit that has set the given values; a value of
\* <<>> is a key the unit has not set (Juju keeps no empty value).
MkRelData(h, p, db, u, pw, st, au) ==
    LET full == [k \in Keys |->
                   CASE k = "host" -> h
                     [] k = "port" -> p
                     [] k = "database" -> db
                     [] k = "user" -> u
                     [] k = "password" -> pw
                     [] k = "state" -> st
                     [] k = "allowed-units" -> au]
    IN [k \in {x \in Keys : full[x] # <<>>} |-> full[k]]

\* The local side of a relation instance: nothing, or a requested database.
LocalDatas == {EmptyDict} \cup {[k \in {"database"} |-> <<n>>] : n \in {"orders"}}

---------------------------------------------------------------------------
(* ConnectionString *)

\* The keyword names, in sorted() order.
KeyOrder == <<"dbname", "host", "hostaddr", "password", "port", "sslmode", "user">>

\* quote(x): backslash and single quote get a backslash before them.
RECURSIVE quote(_)
quote(x) ==
    IF x = <<>> THEN <<>>
    ELSE IF Head(x) = "\\" THEN <<"\\", "\\">> \o quote(Tail(x))
    ELSE IF Head(x) = "'" THEN <<"\\", "'">> \o quote(Tail(x))
    ELSE <<Head(x)>> \o quote(Tail(x))

\* " ".join("{}={}".format(k, quote(v)) for k, v in sorted(kw.items()))
RECURSIVE JoinItems(_, _)
JoinItems(kw, ks) ==
    IF ks = <<>> THEN <<>>
    ELSE <<Head(ks), "=">> \o quote(kw[Head(ks)])
         \o (IF Tail(ks) = <<>> THEN <<>> ELSE <<" ">> \o JoinItems(kw, Tail(ks)))

\* urllib.parse.quote(v, safe=''): every character that is not a letter, a
\* digit or one of "_.-~" is percent-encoded.
QuoteAtom(a) ==
    CASE a = " " -> "%20"
      [] a = "=" -> "%3D"
      [] a = "\\" -> "%5C"
      [] a = "'" -> "%27"
      [] a = "::1" -> "%3A%3A1"
      [] a = "0:0:0:0:0:0:0:1" -> "0%3A0%3A0%3A0%3A0%3A0%3A0%3A1"
      [] OTHER -> a

urllib_quote(v) == [i \in DOMAIN v |-> QuoteAtom(v[i])]

\* The IP literals among the atoms, and str() of their address objects.
IPv4Literals == {"10.0.0.1", "10.0.0.2"}

IPv6Literals == {"::1", "0:0:0:0:0:0:0:1"}

Compressed(a) == IF a = "0:0:0:0:0:0:0:1" THEN "::1" ELSE a

ValueError == [py |-> "ValueError"]

\* ipaddress.ip_address(v)
ip_address(v) ==
    IF Len(v) = 1 /\ v[1] \in IPv4Literals
    THEN [py |-> "IPv4Address", text |-> v]
    ELSE IF Len(v) = 1 /\ v[1] \in IPv6Literals
    THEN [py |-> "IPv6Address", text |-> <<Compressed(v[1])>>]
    ELSE ValueError

\* d['hostaddr'] as the branch 'if "host" in kw' sets it, from the keywords
\* kw and their quoted values d.
HostAddr(kw, d) ==
    LET hostaddr == ip_address(IF Get(kw, "hostaddr", <<>>) # <<>>
                               THEN kw["hostaddr"] ELSE kw["host"])
    IN IF hostaddr = ValueError THEN d["host"]
       ELSE IF hostaddr.py = "IPv6Address" THEN <<"[">> \o hostaddr.text \o <<"]">>
       ELSE hostaddr.text

main_keys == {"user", "password", "dbname", "hostaddr", "port"}

\* '&'.join(extra_fmt).format(**d) for the extra keys ks
RECURSIVE JoinExtras(_, _)
JoinExtras(d, ks) ==
    IF ks = <<>> THEN <<>>
    ELSE <<Head(ks), "=">> \o d[Head(ks)]
         \o (IF Tail(ks) = <<>> THEN <<>> ELSE <<"&">> \o JoinExtras(d, Tail(ks)))

\* c.uri for the keywords kw
Uri(kw) ==
    LET quoted == [k \in DOMAIN kw |-> urllib_quote(kw[k])]
        d == IF "host" \in DOMAIN kw
             THEN [k \in (DOMAIN quoted \cup {"hostaddr"}) \ {"host"} |->
                     IF k = "hostaddr" THEN HostAddr(kw, quoted) ELSE quoted[k]]
             ELSE quoted
        extra == SelectSeq(KeyOrder, LAMBDA k : k \in DOMAIN d /\ k \notin main_keys)
    IN <<"postgresql://">>
       \o (IF "user" \in DOMAIN d
           THEN (IF "password" \in DOMAIN d
                 THEN d["user"] \o <<":">> \o d["password"] \o <<"@">>
                 ELSE d["user"] \o <<"@">>)
           ELSE <<>>)
       \o (IF "host" \in DOMAIN kw THEN d["hostaddr"] ELSE <<>>)
       \o (IF "port" \in DOMAIN d THEN <<":">> \o d["port"] ELSE <<>>)
       \o (IF "dbname" \in DOMAIN d THEN <<"/">> \o d["dbname"] ELSE <<>>)
       \o (IF extra # <<>> THEN <<"?">> \o JoinExtras(d, extra) ELSE <<>>)

\* ConnectionString(**kw): the str value and the attributes set on it.  The
\* attribute uri, set once from kw, is ConnectionString_uri; the class
\* attribute _keys is set by the actions that construct.
ConnectionString(kw) ==
    [str   |-> JoinItems(kw, SelectSeq(KeyOrder, LAMBDA k : k \in DOMAIN kw)),
     attrs |-> kw]

\* self.uri: the value __new__ computed from the keywords.
ConnectionString_uri(self) == Uri(self.attrs)

\* A call that returned the value v (a str or None).
Returned(v) == [py |-> "return", value |-> v]

AttributeError == [py |-> "AttributeError"]

\* The attributes the class body sets to None.
ClassAttributes == {"host", "dbname", "port", "user", "password", "uri"}

\* getattr(self, key): the attributes __new__ set on the instance, then
\* those of the class.
ConnectionString_getattr(self, key) ==
    IF key \in DOMAIN self.attrs THEN Returned(self.attrs[key])
    ELSE IF key = "uri" THEN Returned(ConnectionString_uri(self))
    ELSE IF key \in ClassAttributes THEN Returned(None)
    ELSE AttributeError

\* self[key] for a key that is not an int
ConnectionString_getitem(self, key) ==
    IF ConnectionString_getattr(self, key) = AttributeError
    THEN KeyError
    ELSE ConnectionString_getattr(self, key)

\* self.keys(): the members the iterator over the class attribute yields.
ConnectionString_keys(self) == [py |-> "iterator", members |-> _keys]

\* self.items(): the dict built from self[k] for k in self.keys().
ConnectionString_items(self) ==
    IF \E k \in _keys : ConnectionString_getitem(self, k) = KeyError
    THEN KeyError
    ELSE [py |-> "dict_items",
          map |-> [k \in _keys |-> ConnectionString_getitem(self, k).value]]

\* bool(x): None is false, a str is true when it is not empty, and any
\* other object (a generator) is true.
Truthy(x) ==
    IF x = None THEN FALSE
    ELSE IF "str" \in DOMAIN x THEN x.str # <<>>
    ELSE TRUE

---------------------------------------------------------------------------
(* _cs *)

\* _cs(reldata), with locdata the local data of reldata's relation instance.
_cs(reldata, locdata) ==
    IF DOMAIN reldata = {} THEN None
    ELSE LET d == [host     |-> Get(reldata, "host", <<>>),
                   port     |-> Get(reldata, "port", <<>>),
                   dbname   |-> Get(reldata, "database", <<>>),
                   user     |-> Get(reldata, "user", <<>>),
                   password |-> Get(reldata, "password", <<>>)]
         IN IF \E k \in DOMAIN d : d[k] = <<>> THEN None
            ELSE IF ~InList(LocalUnit, Split(Get(reldata, "allowed-units", <<>>)))
                 THEN None
            ELSE IF "database" \in DOMAIN locdata /\ locdata["database"] # d.dbname
                 THEN None
            ELSE ConnectionString(d)

\* The keywords _cs constructs a ConnectionString with.
CsKeywords == {"host", "port", "dbname", "user", "password"}

\* ConnectionString._keys after a call that may have constructed
\* descriptors through _cs: each construction sets it to set(kw.keys()),
\* which changes it unless it holds these keywords already.
KeysAfter(built) == IF _keys # CsKeywords /\ built THEN CsKeywords ELSE _keys

---------------------------------------------------------------------------
(* The specification of _cs alone: one record, drawn from every shape. *)

AllowedAtoms == {" ", "client/0", "1"}

\* Every reldata over: each core field set or not, two database names, a
\* state set or not, and every allowed-units value up to MaxAllowedLen.
CsRelDatas ==
    {MkRelData(h, p, db, u, pw, st, au) :
        h \in {<<>>, <<"10.0.0.1">>}, p \in {<<>>, <<"5432">>},
        db \in {<<>>, <<"orders">>, <<"accounts">>},
        u \in {<<>>, <<"juju_client">>}, pw \in {<<>>, <<"secret">>},
        st \in {<<>>, <<"master">>},
        au \in Strings(AllowedAtoms, MaxAllowedLen)}

NoHook == [name |-> "", relation_id |-> "", remote_unit |-> ""]

NoCall == [op |-> "none"]

InitCs ==
    /\ \E rd \in CsRelDatas :
          relations = [r \in RelIdSet |->
                         IF r = RelIds[1] THEN [u \in {UnitOrder[1]} |-> rd]
                         ELSE EmptyDict]
    /\ \E ld \in LocalDatas \cup {[k \in {"database"} |-> <<"accounts">>]} :
          local = [r \in RelIdSet |-> IF r = RelIds[1] THEN ld ELSE EmptyDict]
    /\ states = {}
    /\ conversations = {}
    /\ hook = NoHook
    /\ pending = {}
    /\ ret = NoCall
    /\ held = [n \in Names |-> Unbound]
    /\ _keys = {}

\* A call of _cs on the record of a unit.
CallCs(r, u) ==
    /\ ret.op = "none"
    /\ ret' = [op |-> "_cs", relid |-> r, unit |-> u,
               val |-> _cs(relations[r][u], local[r])]
    /\ _keys' = KeysAfter(_cs(relations[r][u], local[r]) # None)
    /\ UNCHANGED <<relations, local, states, conversations, hook, pending, held>>

NextCs == \E r \in RelIdSet : \E u \in DOMAIN relations[r] : CallCs(r, u)

SpecCs == InitCs /\ [][NextCs]_vars

---------------------------------------------------------------------------
(* C3 *)

CoreKeys == {"host", "port", "database", "user", "password"}

\* The five core fields are all set and non-empty.
Complete(rd) == \A k \in CoreKeys : k \in DOMAIN rd /\ rd[k] # <<>>

\* s[i..j] is a whole space-separated name of s.
IsName(s, i, j) ==
    /\ 1 <= i /\ i <= j /\ j <= Len(s)
    /\ \A n \in i..j : s[n] # " "
    /\ (i = 1 \/ s[i - 1] = " ")
    /\ (j = Len(s) \/ s[j + 1] = " ")

\* The local unit's name is one of the space-separated names of allowed-units.
Authorized(rd) ==
    /\ "allowed-units" \in DOMAIN rd
    /\ LET s == rd["allowed-units"]
       IN \E i, j \in 1..Len(s) : IsName(s, i, j) /\ SubSeq(s, i, j) = LocalUnit

\* The local side requests no database, or the one the record reports.
DbMatches(rd, ld) ==
    "database" \in DOMAIN ld =>
        ("database" \in DOMAIN rd /\ rd["database"] = ld["database"])

Ready(rd, ld) == Complete(rd) /\ Authorized(rd) /\ DbMatches(rd, ld)

\* C3: _cs returns a descriptor if and only if the record is complete, the
\* local unit is among the names of allowed-units and the database matches
\* the locally requested one; otherwise it returns None.  The descriptor
\* carries the record's five core values.
C3_ResolveUnitIffReady ==
    ret.op = "_cs" =>
        LET rd == relations[ret.relid][ret.unit]
            ld == local[ret.relid]
        IN /\ (ret.val # None) <=> Ready(rd, ld)
           /\ ret.val # None =>
                /\ ret.val.attrs.host = rd["host"]
                /\ ret.val.attrs.port = rd["port"]
                /\ ret.val.attrs.dbname = rd["database"]
                /\ ret.val.attrs.user = rd["user"]
                /\ ret.val.attrs.password = rd["password"]

\* A complete record whose allowed-units holds the local unit after another
\* name, with a matching local request, has been resolved to a descriptor.
C3_Witness ==
    /\ ret.op = "_cs"
    /\ ret.val # None
    /\ "database" \in DOMAIN local[ret.relid]
    /\ Len(relations[ret.relid][ret.unit]["allowed-units"]) = 3

---------------------------------------------------------------------------
(* ConnectionStrings *)

\* A Python exception that propagated to the caller.
LookupError == [py |-> "LookupError"]

\* The units of a relation, as relation.items() enumerates them.
UnitsOf(relation) == SelectSeq(UnitOrder, LAMBDA u : u \in DOMAIN relation)

\* ConnectionStrings(relid): the mapping unit -> _cs(reldata) built by
\* __init__ from the snapshot of that moment.
ConnectionStrings(relid) ==
    [relname |-> RelationName,
     relid   |-> relid,
     items   |-> [u \in DOMAIN relations[relid] |->
                    _cs(relations[relid][u], local[relid])]]

\* ConnectionStrings(relid) constructs a descriptor for some unit.
Builds(relid) ==
    \E u \in DOMAIN relations[relid] : _cs(relations[relid][u], local[relid]) # None

\* self[unit]
GetItem(self, unit) ==
    IF unit \in DOMAIN self.items THEN self.items[unit] ELSE KeyError

\* A master property that takes the first candidate when there are several.
ConnectionStrings_master_first(self) ==
    LET relation == relations[self.relid]
        masters == SelectSeq(UnitsOf(relation), LAMBDA u :
                       Get(relation[u], "state", <<>>)
                           \in {<<"master">>, <<"standalone">>})
    IN IF Len(masters) >= 1 THEN GetItem(self, masters[1]) ELSE None

\* A master property that knows the state 'master' only.
ConnectionStrings_master_nostandalone(self) ==
    LET relation == relations[self.relid]
        masters == SelectSeq(UnitsOf(relation), LAMBDA u :
                       Get(relation[u], "state", <<>>) = <<"master">>)
    IN IF Len(masters) = 1 THEN GetItem(self, masters[1]) ELSE None

\* ConnectionStrings.master
ConnectionStrings_master(self) ==
    LET relation == relations[self.relid]
        masters == SelectSeq(UnitsOf(relation), LAMBDA u :
                       Get(relation[u], "state", <<>>)
                           \in {<<"master">>, <<"standalone">>})
    IN IF Len(masters) = 1 THEN GetItem(self, masters[1]) ELSE None

\* The descriptors a generator of ConnectionStrings.standbys yields for the
\* units us, in order.  A KeyError of self[unit] ends the iteration.
RECURSIVE YieldStandbys(_, _)
YieldStandbys(self, us) ==
    IF us = <<>> THEN <<>>
    ELSE LET unit == Head(us)
             conn_str == GetItem(self, unit)
             hot == Get(relations[self.relid][unit], "state", <<>>) = <<"hot standby">>
         IN IF hot /\ conn_str = KeyError THEN <<>>
            ELSE (IF hot /\ Truthy(conn_str) THEN <<conn_str>> ELSE <<>>)
                 \o YieldStandbys(self, Tail(us))

\* The iteration of a generator of ConnectionStrings.standbys ends with a
\* KeyError: self holds no item for a unit that declares 'hot standby'.
IterateRaises(gen) ==
    \E u \in DOMAIN relations[gen.self.relid] :
        /\ Get(relations[gen.self.relid][u], "state", <<>>) = <<"hot standby">>
        /\ GetItem(gen.self, u) = KeyError

\* ConnectionStrings.standbys: the property returns a generator object; its
\* body runs, and reads the snapshot, when the generator is iterated.
ConnectionStrings_standbys(self) == [py |-> "generator", self |-> self]

\* An iteration that yields every ready unit, whatever its state.
IterateAnyState(gen) ==
    LET ready == SelectSeq(UnitsOf(relations[gen.self.relid]),
                           LAMBDA u : Truthy(GetItem(gen.self, u)))
    IN [i \in DOMAIN ready |-> GetItem(gen.self, ready[i])]

\* list(gen) for a generator of ConnectionStrings.standbys.
Iterate(gen) == YieldStandbys(gen.self, UnitsOf(relations[gen.self.relid]))

---------------------------------------------------------------------------
(* PostgreSQLClient: the queries *)

\* PostgreSQLClient.__getitem__
PostgreSQLClient_getitem(relid) == ConnectionStrings(relid)

\* PostgreSQLClient.__iter__: one ConnectionStrings per relation id, in the
\* order of context.Relations()[relation_name].
PostgreSQLClient_iter == [i \in DOMAIN RelIds |-> PostgreSQLClient_getitem(RelIds[i])]

\* The loop of PostgreSQLClient.master over the ConnectionStrings css.
RECURSIVE FirstMaster(_)
FirstMaster(css) ==
    IF css = <<>> THEN None
    ELSE IF Truthy(ConnectionStrings_master(Head(css)))
         THEN ConnectionStrings_master(Head(css))
    ELSE FirstMaster(Tail(css))

\* A master property that looks at the first relation instance only.
PostgreSQLClient_master_head == ConnectionStrings_master(Head(PostgreSQLClient_iter))

\* PostgreSQLClient.master
PostgreSQLClient_master == FirstMaster(PostgreSQLClient_iter)

\* itertools.chain(*(cs.standbys for cs in css))
RECURSIVE Chain(_)
Chain(css) ==
    IF css = <<>> THEN <<>>
    ELSE Iterate(ConnectionStrings_standbys(Head(css))) \o Chain(Tail(css))

\* set(l): equal strs are one member, the first that came.
PySet(l) == {l[i] : i \in {n \in DOMAIN l : \A m \in 1..(n - 1) : l[m].str # l[n].str}}

\* A standbys property that stops after the first relation instance.
PostgreSQLClient_standbys_head ==
    PySet(Iterate(ConnectionStrings_standbys(Head(PostgreSQLClient_iter))))

\* PostgreSQLClient.standbys
PostgreSQLClient_standbys == PySet(Chain(PostgreSQLClient_iter))

\* A connection_string that forgets, at each instance without the unit, that
\* an earlier instance held it.
RECURSIVE FindUnitForgetful(_, _, _)
FindUnitForgetful(unit, rs, found) ==
    IF rs = <<>> THEN (IF found THEN None ELSE LookupError)
    ELSE LET relation == relations[Head(rs)]
         IN IF unit \in DOMAIN relation
            THEN LET conn_str == _cs(relation[unit], local[Head(rs)])
                 IN IF Truthy(conn_str) THEN conn_str
                    ELSE FindUnitForgetful(unit, Tail(rs), TRUE)
            ELSE FindUnitForgetful(unit, Tail(rs), FALSE)

\* The loop of connection_string over the relation ids rs, with the value
\* of found so far.
RECURSIVE FindUnit(_, _, _)
FindUnit(unit, rs, found) ==
    IF rs = <<>> THEN (IF found THEN None ELSE LookupError)
    ELSE LET relation == relations[Head(rs)]
         IN IF unit \in DOMAIN relation
            THEN LET conn_str == _cs(relation[unit], local[Head(rs)])
                 IN IF Truthy(conn_str) THEN conn_str
                    ELSE FindUnit(unit, Tail(rs), TRUE)
            ELSE FindUnit(unit, Tail(rs), found)

\* A connection_string that answers from the first instance holding the unit.
PostgreSQLClient_connection_string_first(unit) ==
    LET holders == SelectSeq(RelIds, LAMBDA r : unit \in DOMAIN relations[r])
    IN IF holders = <<>> THEN LookupError
       ELSE _cs(relations[Head(holders)][unit], local[Head(holders)])

\* PostgreSQLClient.connection_string(unit)
PostgreSQLClient_connection_string(unit) == FindUnit(unit, RelIds, FALSE)

---------------------------------------------------------------------------
(* The relation data the remote units publish.  The snapshot does not      *)
(* change while a call is being answered (ret holds its result).           *)

\* The address a unit publishes as its host.
HostOf(u) ==
    CASE u = "pg/0" -> <<"10.0.0.1">>
      [] u = "pg/1" -> <<"10.0.0.2">>
      [] u = "pg/2" -> <<"::1">>

\* What a unit may have published: its database, its password (or not yet),
\* its state and the clients it allows.
Shapes ==
    {<<"orders",   "secret", "master",      <<"client/0">>>>,
     <<"orders",   "secret", "standalone",  <<"other/0", " ", "client/0">>>>,
     <<"orders",   "secret", "hot standby", <<"client/0">>>>,
     <<"orders",   "secret", "",            <<"client/0">>>>,
     <<"orders",   "",       "master",      <<"client/0">>>>,
     <<"orders",   "secret", "hot standby", <<"other/0">>>>,
     <<"accounts", "secret", "hot standby", <<"client/0">>>>}

Str(x) == IF x = "" THEN <<>> ELSE <<x>>

UnitRelDatas(u) ==
    {MkRelData(HostOf(u), <<"5432">>, Str(sh[1]), <<"juju_client">>,
               Str(sh[2]), Str(sh[3]), sh[4]) : sh \in Shapes}

\* The number of unit records in the snapshot.
Related == Cardinality({<<r, u>> \in RelIdSet \X Units : u \in DOMAIN relations[r]})

\* A remote unit joins a relation instance or changes its data there.
RelationSet(r, u, rd) ==
    /\ ret = NoCall
    /\ u \in DOMAIN relations[r] \/ Related < MaxRelated
    /\ ~(u \in DOMAIN relations[r] /\ relations[r][u] = rd)
    /\ relations' = [relations EXCEPT ![r] =
                        [x \in DOMAIN @ \cup {u} |-> IF x = u THEN rd ELSE @[x]]]
    /\ ret' = NoCall
    /\ UNCHANGED <<local, states, conversations, hook, pending, held, _keys>>

\* A remote unit leaves a relation instance.
RelationDepart(r, u) ==
    /\ ret = NoCall
    /\ u \in DOMAIN relations[r]
    /\ relations' = [relations EXCEPT ![r] = [x \in DOMAIN @ \ {u} |-> @[x]]]
    /\ ret' = NoCall
    /\ UNCHANGED <<local, states, conversations, hook, pending, held, _keys>>

---------------------------------------------------------------------------
(* The specification of the queries, over every relation snapshot. *)

InitResolve ==
    /\ relations = [r \in RelIdSet |-> EmptyDict]
    /\ local \in [RelIdSet -> LocalDatas]
    /\ states = {}
    /\ conversations = {}
    /\ hook = NoHook
    /\ pending = {}
    /\ ret = NoCall
    /\ held = [n \in Names |-> Unbound]
    /\ _keys = {}

\* pgsql[relid].master
QueryInstanceMaster(r) ==
    /\ ret = NoCall
    /\ ret' = [op |-> "cs.master", relid |-> r,
               val |-> ConnectionStrings_master(PostgreSQLClient_getitem(r))]
    /\ _keys' = KeysAfter(Builds(r))
    /\ UNCHANGED <<relations, local, states, conversations, hook, pending, held>>

\* list(pgsql[relid].standbys)
QueryInstanceStandbys(r) ==
    /\ ret = NoCall
    /\ ret' = [op |-> "cs.standbys", relid |-> r,
               val |-> Iterate(ConnectionStrings_standbys(PostgreSQLClient_getitem(r)))]
    /\ _keys' = KeysAfter(Builds(r))
    /\ UNCHANGED <<relations, local, states, conversations, hook, pending, held>>

\* pgsql.master
QueryMaster ==
    /\ ret = NoCall
    /\ ret' = [op |-> "master", val |-> PostgreSQLClient_master]
    /\ _keys' = KeysAfter(\E r \in RelIdSet : Builds(r))
    /\ UNCHANGED <<relations, local, states, conversations, hook, pending, held>>

\* pgsql.standbys
QueryStandbys ==
    /\ ret = NoCall
    /\ ret' = [op |-> "standbys", val |-> PostgreSQLClient_standbys]
    /\ _keys' = KeysAfter(\E r \in RelIdSet : Builds(r))
    /\ UNCHANGED <<relations, local, states, conversations, hook, pending, held>>

\* pgsql.connection_string(unit)
QueryConnectionString(u) ==
    /\ ret = NoCall
    /\ ret' = [op |-> "connection_string", unit |-> u,
               val |-> PostgreSQLClient_connection_string(u)]
    /\ _keys' = KeysAfter("attrs" \in DOMAIN PostgreSQLClient_connection_string(u))
    /\ UNCHANGED <<relations, local, states, conversations, hook, pending, held>>

\* The caller has taken the result; the snapshot may change again.
Return ==
    /\ ret # NoCall
    /\ ret' = NoCall
    /\ UNCHANGED <<relations, local, states, conversations, hook, pending, held, _keys>>

NextResolve ==
    \/ \E r \in RelIdSet, u \in Units : \E rd \in UnitRelDatas(u) : RelationSet(r, u, rd)
    \/ \E r \in RelIdSet, u \in Units : RelationDepart(r, u)
    \/ \E r \in RelIdSet : QueryInstanceMaster(r)
    \/ \E r \in RelIdSet : QueryInstanceStandbys(r)
    \/ QueryMaster
    \/ QueryStandbys
    \/ \E u \in Units : QueryConnectionString(u)
    \/ Return

SpecResolve == InitResolve /\ [][NextResolve]_vars

---------------------------------------------------------------------------
(* PostgreSQLClient: the states and the hook handlers.                     *)
(*                                                                         *)
(* The relation has scope SERVICE and set_database matches a conversation  *)
(* by c.namespace == relid: there is one conversation per relation id.     *)
(* A state is held by conversations; it is raised while some conversation  *)
(* holds it.                                                               *)

Connected == RelationName \o ".connected"

MasterAvailable == RelationName \o ".master.available"

StandbysAvailable == RelationName \o ".standbys.available"

DatabaseAvailable == RelationName \o ".database.available"

\* conversation.set_state(state)
SetState(S, conv, state) == S \cup {<<state, conv>>}

\* conversation.remove_state(state)
RemoveState(S, conv, state) == S \ {<<state, conv>>}

\* A toggle_state that never removes a state.
ToggleStateSetOnly(S, conv, state, active) ==
    IF Truthy(active) THEN SetState(S, conv, state) ELSE S

\* conversation.toggle_state(state, active)
ToggleState(S, conv, state, active) ==
    IF Truthy(active) THEN SetState(S, conv, state)
    ELSE RemoveState(S, conv, state)

\* The state is raised: a handler under @when(state) runs.
IsSet(state) == \E c \in RelIdSet : <<state, c>> \in states

\* An or that takes its first operand, whatever its truth.
OrFirst(a, b) == a

\* a or b
Or(a, b) == IF Truthy(a) THEN a ELSE b

\* The units of the hook specification.
HookUnits == {"pg/0", "pg/1"}

DbNames == {"orders", "accounts"}

\* relid=None of set_database.
NoRelid == "None"

\* A remote unit joins relation r with data rd: the relation-joined hook is
\* dispatched to the handlers joined and changed.
HookJoined(r, u, rd) ==
    /\ hook = NoHook
    /\ u \notin DOMAIN relations[r]
    /\ Related < MaxRelated
    /\ relations' = [relations EXCEPT ![r] =
                        [x \in DOMAIN @ \cup {u} |-> IF x = u THEN rd ELSE @[x]]]
    /\ hook' = [name |-> "relation-joined", relation_id |-> r, remote_unit |-> u]
    /\ pending' = {"joined", "changed"}
    /\ conversations' = conversations \cup {r}
    /\ UNCHANGED <<local, states, ret, held, _keys>>

\* A remote unit changes its data to rd: the relation-changed hook is
\* dispatched to the handler changed.
HookChanged(r, u, rd) ==
    /\ hook = NoHook
    /\ u \in DOMAIN relations[r]
    /\ relations[r][u] # rd
    /\ relations' = [relations EXCEPT ![r][u] = rd]
    /\ hook' = [name |-> "relation-changed", relation_id |-> r, remote_unit |-> u]
    /\ pending' = {"changed"}
    /\ conversations' = conversations \cup {r}
    /\ UNCHANGED <<local, states, ret, held, _keys>>

\* A remote unit leaves relation r: the relation-departed hook is dispatched
\* to the handlers changed and departed; the unit is no longer listed.
HookDeparted(r, u) ==
    /\ hook = NoHook
    /\ u \in DOMAIN relations[r]
    /\ relations' = [relations EXCEPT ![r] = [x \in DOMAIN @ \ {u} |-> @[x]]]
    /\ hook' = [name |-> "relation-departed", relation_id |-> r, remote_unit |-> u]
    /\ pending' = {"changed", "departed"}
    /\ conversations' = conversations \cup {r}
    /\ UNCHANGED <<local, states, ret, held, _keys>>

\* PostgreSQLClient.joined
Joined ==
    /\ "joined" \in pending
    /\ states' = SetState(states, hook.relation_id, Connected)
    /\ pending' = pending \ {"joined"}
    /\ UNCHANGED <<relations, local, conversations, hook, ret, held, _keys>>

\* PostgreSQLClient.changed
Changed ==
    /\ "changed" \in pending
    /\ LET relid == hook.relation_id
           cs == PostgreSQLClient_getitem(relid)
           s1 == ToggleState(states, relid, MasterAvailable,
                             ConnectionStrings_master(cs))
           s2 == ToggleState(s1, relid, StandbysAvailable,
                             ConnectionStrings_standbys(cs))
           s3 == ToggleState(s2, relid, DatabaseAvailable,
                             Or(ConnectionStrings_master(cs),
                                ConnectionStrings_standbys(cs)))
       IN states' = s3
    /\ pending' = pending \ {"changed"}
    /\ _keys' = KeysAfter(Builds(hook.relation_id))
    /\ UNCHANGED <<relations, local, conversations, hook, ret, held>>

\* A departed that lowers connected and departs the conversation whoever
\* else is still related.
DepartedWhoeverRemains ==
    /\ "departed" \in pending
    /\ states' = RemoveState(states, hook.relation_id, Connected)
    /\ conversations' = conversations \ {hook.relation_id}
    /\ pending' = pending \ {"departed"}
    /\ UNCHANGED <<relations, local, hook, ret, held, _keys>>

\* PostgreSQLClient.departed
Departed ==
    /\ "departed" \in pending
    /\ LET related_units == DOMAIN relations[hook.relation_id]
       IN IF ~\E u \in related_units : u # hook.remote_unit
          THEN /\ states' = RemoveState(states, hook.relation_id, Connected)
               /\ conversations' = conversations \ {hook.relation_id}
          ELSE UNCHANGED <<states, conversations>>
    /\ pending' = pending \ {"departed"}
    /\ UNCHANGED <<relations, local, hook, ret, held, _keys>>

\* Every handler of the hook has run: the hook is over.
HookEnd ==
    /\ hook # NoHook
    /\ pending = {}
    /\ hook' = NoHook
    /\ UNCHANGED <<relations, local, states, conversations, pending, ret, held, _keys>>

\* c.set_remote(key, value): the local data locdata of the conversation's
\* relation instance after it.
set_remote(locdata, key, value) ==
    [k \in DOMAIN locdata \cup {key} |-> IF k = key THEN value ELSE locdata[k]]

\* The loop of set_database over the conversations convs: the local data
\* of every relation instance after it.
set_database(loc, convs, dbname, relid) ==
    [c \in RelIdSet |->
        IF c \in convs /\ (relid = NoRelid \/ c = relid)
        THEN set_remote(loc[c], "database", <<dbname>>)
        ELSE loc[c]]

\* PostgreSQLClient.set_database(dbname, relid), called between hooks.
SetDatabase(dbname, relid) ==
    /\ hook = NoHook
    /\ local' = set_database(local, conversations, dbname, relid)
    /\ UNCHANGED <<relations, states, conversations, hook, pending, ret, held, _keys>>

Init ==
    /\ relations = [r \in RelIdSet |-> EmptyDict]
    /\ local = [r \in RelIdSet |-> EmptyDict]
    /\ states = {}
    /\ conversations = {}
    /\ hook = NoHook
    /\ pending = {}
    /\ ret = NoCall
    /\ held = [n \in Names |-> Unbound]
    /\ _keys = {}

Next ==
    \/ \E r \in RelIdSet, u \in HookUnits : \E rd \in UnitRelDatas(u) : HookJoined(r, u, rd)
    \/ \E r \in RelIdSet, u \in HookUnits : \E rd \in UnitRelDatas(u) : HookChanged(r, u, rd)
    \/ \E r \in RelIdSet, u \in HookUnits : HookDeparted(r, u)
    \/ Joined
    \/ Changed
    \/ Departed
    \/ HookEnd
    \/ \E n \in DbNames, r \in RelIdSet \cup {NoRelid} : SetDatabase(n, r)

Spec == Init /\ [][Next]_vars

---------------------------------------------------------------------------
(* A caller that keeps the object pgsql[relid] while hooks run and          *)
(* set_database is called.                                                  *)

\* What a unit publishes in this specification: complete, authorised data
\* for database orders, as master or as hot standby.
HeldRelDatas(u) ==
    {MkRelData(HostOf(u), <<"5432">>, <<"orders">>, <<"juju_client">>,
               <<"secret">>, <<st>>, <<"client/0">>) :
        st \in {"master", "hot standby"}}

\* cs = pgsql[relid]
GetInstance(r) ==
    /\ held' = [held EXCEPT !["cs"] = PostgreSQLClient_getitem(r)]
    /\ _keys' = KeysAfter(Builds(r))
    /\ UNCHANGED <<relations, local, states, conversations, hook, pending, ret>>

NextHeld ==
    \/ \E r \in RelIdSet, u \in HookUnits : \E rd \in HeldRelDatas(u) : HookJoined(r, u, rd)
    \/ \E r \in RelIdSet, u \in HookUnits : \E rd \in HeldRelDatas(u) : HookChanged(r, u, rd)
    \/ \E r \in RelIdSet, u \in HookUnits : HookDeparted(r, u)
    \/ Joined
    \/ Changed
    \/ Departed
    \/ HookEnd
    \/ \E n \in DbNames, r \in RelIdSet \cup {NoRelid} : SetDatabase(n, r)
    \/ \E r \in RelIdSet : GetInstance(r)

SpecHeld == Init /\ [][NextHeld]_vars

---------------------------------------------------------------------------
(* A caller that constructs ConnectionStrings itself and reads them. *)

ValueAtoms == {"a", " ", "=", "\\", "'"}

HostValues == {<<"10.0.0.1">>, <<"::1">>, <<"0:0:0:0:0:0:0:1">>, <<"db.example.com">>}

HostaddrValues == {<<"10.0.0.2">>, <<"::1">>, <<"pg.internal">>}

\* The keywords other than host and hostaddr: none, a user and a database,
\* the four other core keywords, and those with an extra parameter.
OtherKeywords ==
    {EmptyDict,
     [user |-> <<"juju_client">>, dbname |-> <<"orders">>],
     [port |-> <<"5432">>, dbname |-> <<"orders">>, user |-> <<"juju_client">>,
      password |-> <<"secret">>],
     [port |-> <<"5432">>, dbname |-> <<"orders">>, user |-> <<"juju_client">>,
      password |-> <<"secret">>, sslmode |-> <<"require">>]}

\* The keyword mappings the caller constructs with: every combination of a
\* host, a hostaddr and the other keywords, and a dbname alone with every
\* value of up to MaxValueLen atoms.
FieldMaps ==
    ({h @@ a @@ o :
        h \in {EmptyDict} \cup {[k \in {"host"} |-> v] : v \in HostValues},
        a \in {EmptyDict} \cup {[k \in {"hostaddr"} |-> v] : v \in HostaddrValues},
        o \in OtherKeywords} \ {EmptyDict})
    \cup {[k \in {"dbname"} |-> v] : v \in Strings(ValueAtoms, MaxValueLen) \ {<<>>}}

\* The variables that hold a ConnectionString.
DescriptorNames == {"c", "d"}

\* The names looked up on a descriptor.
LookupKeys == {KeyOrder[i] : i \in DOMAIN KeyOrder} \cup {"uri"}

\* c = ConnectionString(**kw)
Construct(n, kw) ==
    /\ ret = NoCall
    /\ held' = [held EXCEPT ![n] = ConnectionString(kw)]
    /\ _keys' = DOMAIN kw
    /\ UNCHANGED <<relations, local, states, conversations, hook, pending, ret>>

\* c[key]
Lookup(n, key) ==
    /\ ret = NoCall
    /\ held[n] # Unbound
    /\ ret' = [op |-> "getitem", name |-> n, key |-> key,
               val |-> ConnectionString_getitem(held[n], key)]
    /\ UNCHANGED <<relations, local, states, conversations, hook, pending, held, _keys>>

\* set(c.keys())
CallKeys(n) ==
    /\ ret = NoCall
    /\ held[n] # Unbound
    /\ ret' = [op |-> "keys", name |-> n, val |-> ConnectionString_keys(held[n])]
    /\ UNCHANGED <<relations, local, states, conversations, hook, pending, held, _keys>>

\* c.items()
CallItems(n) ==
    /\ ret = NoCall
    /\ held[n] # Unbound
    /\ ret' = [op |-> "items", name |-> n, val |-> ConnectionString_items(held[n])]
    /\ UNCHANGED <<relations, local, states, conversations, hook, pending, held, _keys>>

NextDescriptor ==
    \/ \E n \in DescriptorNames, kw \in FieldMaps : Construct(n, kw)
    \/ \E n \in DescriptorNames, key \in LookupKeys : Lookup(n, key)
    \/ \E n \in DescriptorNames : CallKeys(n)
    \/ \E n \in DescriptorNames : CallItems(n)
    \/ Return

SpecDescriptor == Init /\ [][NextDescriptor]_vars

---------------------------------------------------------------------------
(* What the claims say of a relation instance, stated on the snapshot. *)

\* The units of instance r that declare 'master' or 'standalone'.
MasterCandidates(r) ==
    {u \in DOMAIN relations[r] :
        /\ "state" \in DOMAIN relations[r][u]
        /\ relations[r][u]["state"] \in {<<"master">>, <<"standalone">>}}

\* The units of instance r that declare 'hot standby'.
HotStandbys(r) ==
    {u \in DOMAIN relations[r] :
        /\ "state" \in DOMAIN relations[r][u]
        /\ relations[r][u]["state"] = <<"hot standby">>}

\* Unit u of instance r is ready.
IsReady(r, u) == Ready(relations[r][u], local[r])

\* d is a descriptor, and it carries the five core values of record rd.
Describes(d, rd) ==
    /\ "attrs" \in DOMAIN d
    /\ Complete(rd)
    /\ d.attrs = [host |-> rd["host"], port |-> rd["port"],
                  dbname |-> rd["database"], user |-> rd["user"],
                  password |-> rd["password"]]

\* The members of a list.
Range(l) == {l[i] : i \in DOMAIN l}

\* The per-instance master and standbys of instance r on the snapshot.
InstanceMaster(r) == ConnectionStrings_master(PostgreSQLClient_getitem(r))

InstanceStandbys(r) == Iterate(ConnectionStrings_standbys(PostgreSQLClient_getitem(r)))

---------------------------------------------------------------------------
(* C1 *)

\* C1: the per-instance master query reports None whenever the number of
\* units of the instance that declare 'master' or 'standalone' is zero or
\* more than one; it reports a single value, never one of two such units.
C1_NoMasterUnlessOneCandidate ==
    ret.op = "cs.master" =>
        (Cardinality(MasterCandidates(ret.relid)) # 1 => ret.val = None)

\* Two ready units of an instance both declare 'master' and the query has
\* reported None.
C1_Witness ==
    /\ ret.op = "cs.master"
    /\ ret.val = None
    /\ \E u, v \in MasterCandidates(ret.relid) :
          /\ u # v
          /\ IsReady(ret.relid, u) /\ IsReady(ret.relid, v)
          /\ relations[ret.relid][u]["state"] = <<"master">>
          /\ relations[ret.relid][v]["state"] = <<"master">>

---------------------------------------------------------------------------
(* C2 *)

\* C2 as stated: if exactly one master-candidate is ready the master is
\* that unit's descriptor, however many candidates are not ready; in every
\* other case it is None.
C2_Original ==
    ret.op = "cs.master" =>
        LET ready == {u \in MasterCandidates(ret.relid) : IsReady(ret.relid, u)}
        IN IF Cardinality(ready) = 1
           THEN \E u \in ready : Describes(ret.val, relations[ret.relid][u])
           ELSE ret.val = None

\* C2, amended: if exactly one unit of the instance declares 'master' or
\* 'standalone' and that unit is ready, the per-instance master is that
\* unit's descriptor; in every other case (no candidate, several candidates
\* ready or not, or a single candidate that is not ready) it is None.
C2_MasterIsTheOnlyCandidateIfReady ==
    ret.op = "cs.master" =>
        LET cands == MasterCandidates(ret.relid)
        IN IF Cardinality(cands) = 1 /\ \A u \in cands : IsReady(ret.relid, u)
           THEN \E u \in cands : Describes(ret.val, relations[ret.relid][u])
           ELSE ret.val = None

\* The only candidate of an instance, a 'standalone' unit, is ready beside
\* another unit, and the query has reported a descriptor.
C2_Witness ==
    /\ ret.op = "cs.master"
    /\ ret.val # None
    /\ Cardinality(DOMAIN relations[ret.relid]) >= 2
    /\ \E u \in MasterCandidates(ret.relid) :
          relations[ret.relid][u]["state"] = <<"standalone">>

---------------------------------------------------------------------------
(* C4 *)

\* C4: the per-instance standbys are exactly the descriptors of the units
\* that declare 'hot standby' and are ready, one for each; a master that is
\* reported is the descriptor of a ready unit declaring 'master' or
\* 'standalone'.  So a unit that is not ready, or that is ready and
\* declares neither role, is in neither.
C4_StandbysAreTheReadyHotStandbys ==
    /\ ret.op = "cs.standbys" =>
          LET hot == {u \in HotStandbys(ret.relid) : IsReady(ret.relid, u)}
          IN /\ Len(ret.val) = Cardinality(hot)
             /\ \A i \in DOMAIN ret.val :
                   \E u \in hot : Describes(ret.val[i], relations[ret.relid][u])
             /\ \A u \in hot :
                   \E i \in DOMAIN ret.val :
                       Describes(ret.val[i], relations[ret.relid][u])
    /\ (ret.op = "cs.master" /\ ret.val # None) =>
          \E u \in MasterCandidates(ret.relid) :
              IsReady(ret.relid, u) /\ Describes(ret.val, relations[ret.relid][u])

\* An instance of one ready master and two ready hot standbys has given two
\* different standbys.
C4_Witness ==
    /\ ret.op = "cs.standbys"
    /\ Len(ret.val) = 2
    /\ ret.val[1] # ret.val[2]
    /\ InstanceMaster(ret.relid) # None

---------------------------------------------------------------------------
(* C5 *)

\* The instances that hold a record of unit u.
Holders(u) == {r \in RelIdSet : u \in DOMAIN relations[r]}

\* C5: connection_string raises LookupError exactly when the unit has a
\* record in no instance; it returns None when the unit has a record
\* somewhere and none of its records is ready; otherwise it returns a
\* descriptor of one of the unit's ready records.
C5_ThreeOutcomes ==
    ret.op = "connection_string" =>
        LET readyIn == {r \in Holders(ret.unit) : IsReady(r, ret.unit)}
        IN /\ (ret.val = LookupError) <=> (Holders(ret.unit) = {})
           /\ (Holders(ret.unit) # {} /\ readyIn = {}) => ret.val = None
           /\ readyIn # {} =>
                \E r \in readyIn : Describes(ret.val, relations[r][ret.unit])

\* The unit has a record in the first instance only, the record is not
\* ready, and the call has returned None.
C5_Witness ==
    /\ ret.op = "connection_string"
    /\ ret.val = None
    /\ Holders(ret.unit) = {RelIds[1]}

---------------------------------------------------------------------------
(* C6 *)

\* The first relation id, in enumeration order, of the non-empty set rs.
FirstOf(rs) == RelIds[CHOOSE i \in DOMAIN RelIds :
                         /\ RelIds[i] \in rs
                         /\ \A j \in 1..(i - 1) : RelIds[j] \notin rs]

\* C6 as stated: the result is the resolution of the unit's record in the
\* first instance that holds the unit.
C6_Original ==
    (ret.op = "connection_string" /\ Holders(ret.unit) # {}) =>
        LET first == FirstOf(Holders(ret.unit))
        IN IF IsReady(first, ret.unit)
           THEN Describes(ret.val, relations[first][ret.unit])
           ELSE ret.val = None

\* C6, amended: the result is the descriptor of the unit's record in the
\* first instance, in enumeration order, in which the unit's record is
\* ready (records in later instances do not influence it); it is None when
\* the unit has a record in some instance and none is ready.
C6_FirstReadyInstance ==
    (ret.op = "connection_string" /\ Holders(ret.unit) # {}) =>
        LET readyIn == {r \in Holders(ret.unit) : IsReady(r, ret.unit)}
        IN IF readyIn # {}
           THEN Describes(ret.val, relations[FirstOf(readyIn)][ret.unit])
           ELSE ret.val = None

\* The unit has a record in both instances, the first is not ready, the
\* second is, and the call has returned the second's descriptor.
C6_Witness ==
    /\ ret.op = "connection_string"
    /\ Holders(ret.unit) = RelIdSet
    /\ ~IsReady(RelIds[1], ret.unit)
    /\ IsReady(RelIds[2], ret.unit)
    /\ Describes(ret.val, relations[RelIds[2]][ret.unit])

---------------------------------------------------------------------------
(* C7 *)

\* C7: the aggregate master is the per-instance master of the first
\* instance, in enumeration order, that has one, and None exactly when no
\* instance has one.
C7_AggregateMasterIsFirstInstanceMaster ==
    ret.op = "master" =>
        LET has == {r \in RelIdSet : InstanceMaster(r) # None}
        IN /\ (ret.val = None) <=> (has = {})
           /\ has # {} => ret.val = InstanceMaster(FirstOf(has))

\* The first instance has units and no master, the second has a master,
\* and the aggregate query has returned it.
C7_Witness ==
    /\ ret.op = "master"
    /\ ret.val # None
    /\ DOMAIN relations[RelIds[1]] # {}
    /\ InstanceMaster(RelIds[1]) = None

---------------------------------------------------------------------------
(* C8 *)

\* C8: the aggregate standbys are the union of the instances' standbys,
\* with descriptors of equal value counted once.
C8_AggregateStandbysIsUnion ==
    ret.op = "standbys" =>
        LET all == UNION {Range(InstanceStandbys(r)) : r \in RelIdSet}
        IN /\ ret.val = all
           /\ Cardinality(ret.val) = Cardinality({d.str : d \in all})

\* The first instance gives two different standbys, the second gives one
\* equal to one of them, and the aggregate has two members.
C8_Witness ==
    /\ ret.op = "standbys"
    /\ Cardinality(ret.val) = 2
    /\ Len(InstanceStandbys(RelIds[1])) = 2
    /\ Len(InstanceStandbys(RelIds[2])) = 1

---------------------------------------------------------------------------
(* C9, C10 *)

\* The changed handler of the dispatched hook has run, and no data and no
\* availability state has changed since: the other handlers of a hook touch
\* neither, and the API is called between hooks.
ChangedRan == hook # NoHook /\ "changed" \notin pending

\* C9 as stated: right after the changed handler has run for an instance,
\* the standbys.available state is raised if and only if the instance has a
\* ready unit declaring 'hot standby'.
C9_Original ==
    ChangedRan =>
        (IsSet(StandbysAvailable) <=>
            \E u \in HotStandbys(hook.relation_id) : IsReady(hook.relation_id, u))

\* C10 as stated: right after the changed handler has run for an instance,
\* the master.available state is raised if and only if the per-instance
\* master of that instance is a descriptor.
C10_Original ==
    ChangedRan =>
        (IsSet(MasterAvailable) <=> InstanceMaster(hook.relation_id) # None)

\* C10, amended: right after the changed handler has run for an instance,
\* the conversation of that instance holds master.available if and only if
\* the per-instance master of that instance is a descriptor, whatever it
\* held before; the state itself is raised if and only if that is so or the
\* conversation of another instance holds it.
C10_ConversationHoldsMasterAvailable ==
    ChangedRan =>
        LET r == hook.relation_id
        IN /\ (<<MasterAvailable, r>> \in states) <=> (InstanceMaster(r) # None)
           /\ IsSet(MasterAvailable) <=>
                 \/ InstanceMaster(r) # None
                 \/ \E c \in RelIdSet \ {r} : <<MasterAvailable, c>> \in states

\* The changed handler has run for an instance that has units and no
\* master: its conversation does not hold master.available, and the state
\* is raised all the same, for the other instance.
C10_Witness ==
    /\ ChangedRan
    /\ DOMAIN relations[hook.relation_id] # {}
    /\ InstanceMaster(hook.relation_id) = None
    /\ <<MasterAvailable, hook.relation_id>> \notin states
    /\ IsSet(MasterAvailable)

---------------------------------------------------------------------------
(* C11 *)

\* C11: in every reachable state, and so after every complete run of the
\* changed handler, database.available is raised if and only if
\* master.available or standbys.available is raised; the same holds of the
\* states each conversation holds.
C11_DatabaseIffMasterOrStandbys ==
    /\ IsSet(DatabaseAvailable) <=>
           (IsSet(MasterAvailable) \/ IsSet(StandbysAvailable))
    /\ \A c \in RelIdSet :
           <<DatabaseAvailable, c>> \in states <=>
              (<<MasterAvailable, c>> \in states
                  \/ <<StandbysAvailable, c>> \in states)

\* The changed handler has run for an instance without a master:
\* database.available is raised for standbys.available alone.
C11_Witness ==
    /\ ChangedRan
    /\ InstanceMaster(hook.relation_id) = None
    /\ IsSet(DatabaseAvailable)
    /\ IsSet(StandbysAvailable)
    /\ ~IsSet(MasterAvailable)

---------------------------------------------------------------------------
(* C12 *)

\* The joined handler of a relation-joined hook has run.
JoinedRan == hook # NoHook /\ hook.name = "relation-joined" /\ "joined" \notin pending

\* The departed handler of a relation-departed hook has run.
DepartedRan ==
    hook # NoHook /\ hook.name = "relation-departed" /\ "departed" \notin pending

\* C12: connected is raised once the joined handler of a relation-joined
\* hook has run; between hooks the conversation of an instance holds it
\* exactly while the instance has a remote unit; after the departed handler
\* has run it is still held, and raised, when a remote unit other than the
\* departing one is still related to the instance, and when none is the
\* conversation has been departed and no longer holds it, so that the state
\* is lowered once no remote unit remains.
C12_ConnectedWhileRelated ==
    /\ JoinedRan =>
          /\ <<Connected, hook.relation_id>> \in states
          /\ IsSet(Connected)
    /\ hook = NoHook =>
          \A r \in RelIdSet :
             <<Connected, r>> \in states <=> DOMAIN relations[r] # {}
    /\ DepartedRan =>
          LET r == hook.relation_id
          IN IF DOMAIN relations[r] # {}
             THEN /\ <<Connected, r>> \in states
                  /\ IsSet(Connected)
                  /\ r \in conversations
             ELSE /\ <<Connected, r>> \notin states
                  /\ r \notin conversations
                  /\ (\A q \in RelIdSet : DOMAIN relations[q] = {})
                        => ~IsSet(Connected)

\* The departed handler has run for a unit that leaves another unit behind
\* in its instance: connected is still raised.
C12_Witness ==
    /\ DepartedRan
    /\ DOMAIN relations[hook.relation_id] # {}
    /\ hook.remote_unit \notin DOMAIN relations[hook.relation_id]
    /\ <<Connected, hook.relation_id>> \in states

---------------------------------------------------------------------------
(* C13 *)

\* C13 as stated, for the states between hooks, where a handler gated on
\* the state runs: if master.available is raised, PostgreSQLClient.master
\* is a descriptor.
C13_Original ==
    (hook = NoHook /\ IsSet(MasterAvailable)) => PostgreSQLClient_master # None

---------------------------------------------------------------------------
(* C14 *)

\* C14 as stated: a step of set_database(dbname, relid) with a relation id
\* sets the local database of that instance and leaves the local data of
\* every other instance as it was; with the id omitted it sets the local
\* database of every instance; and a second call with the same arguments
\* changes nothing more.
C14_Original ==
    [][\A n \in DbNames, r \in RelIdSet \cup {NoRelid} :
          SetDatabase(n, r) =>
             /\ \A c \in RelIdSet :
                   IF r = NoRelid \/ c = r
                   THEN /\ "database" \in DOMAIN local'[c]
                        /\ local'[c]["database"] = <<n>>
                   ELSE local'[c] = local[c]
             /\ set_database(local', conversations', n, r) = local']_vars

---------------------------------------------------------------------------
(* C15 *)

\* C15 as stated, for what keys() and items() of a held descriptor return
\* after any further constructions: the keys and the items it was
\* constructed with.  (Its str value, its attributes and its uri are set
\* once and no code changes them.)
C15_Original ==
    /\ ret.op = "keys" => ret.val.members = DOMAIN held[ret.name].attrs
    /\ ret.op = "items" =>
          /\ ret.val # KeyError
          /\ DOMAIN ret.val.map = DOMAIN held[ret.name].attrs
          /\ \A k \in DOMAIN ret.val.map : ret.val.map[k] = held[ret.name].attrs[k]

---------------------------------------------------------------------------
(* C16 *)

ParseError == [py |-> "ParseError"]

\* The atoms of s with the escapes taken away: a backslash makes the atom
\* after it literal.
RECURSIVE Unescape(_)
Unescape(s) ==
    IF s = <<>> THEN <<>>
    ELSE IF Head(s) = "\\" /\ Len(s) >= 2
         THEN <<[a |-> s[2], lit |-> TRUE]>> \o Unescape(SubSeq(s, 3, Len(s)))
    ELSE <<[a |-> Head(s), lit |-> FALSE]>> \o Unescape(Tail(s))

\* Length of the leading run of m before an unescaped space.
RECURSIVE TokenLen(_)
TokenLen(m) ==
    IF m = <<>> \/ (Head(m).a = " " /\ ~Head(m).lit) THEN 0
    ELSE 1 + TokenLen(Tail(m))

\* m split on its unescaped spaces.
RECURSIVE Tokens(_)
Tokens(m) ==
    <<SubSeq(m, 1, TokenLen(m))>>
    \o (IF TokenLen(m) = Len(m) THEN <<>>
        ELSE Tokens(SubSeq(m, TokenLen(m) + 2, Len(m))))

\* The token is key=value.
IsPair(t) ==
    /\ Len(t) >= 2
    /\ ~t[1].lit /\ t[1].a # "="
    /\ ~t[2].lit /\ t[2].a = "="

\* The keyword string s re-parsed as key=value pairs split on unescaped
\* spaces, the values unescaped.
ParseKeywords(s) ==
    LET ts == Tokens(Unescape(s))
    IN IF \E i \in DOMAIN ts : ~IsPair(ts[i]) THEN ParseError
       ELSE [k \in {ts[i][1].a : i \in DOMAIN ts} |->
               LET t == ts[CHOOSE i \in DOMAIN ts : ts[i][1].a = k]
               IN [j \in 1..(Len(t) - 2) |-> t[j + 2].a]]

\* C16 as stated: the keyword string of a descriptor, re-parsed as
\* key=value pairs split on unescaped spaces and unescaped, gives back the
\* keywords it was constructed with, and two descriptors with equal keyword
\* strings were constructed with the same keywords and values.
C16_Original ==
    /\ \A n \in DescriptorNames :
          held[n] # Unbound => ParseKeywords(held[n].str) = held[n].attrs
    /\ \A n, m \in DescriptorNames :
          (held[n] # Unbound /\ held[m] # Unbound /\ held[n].str = held[m].str)
             => held[n].attrs = held[m].attrs

---------------------------------------------------------------------------
(* C17 *)

\* C17 as stated: a lookup by name on a descriptor returns the value of a
\* keyword the descriptor was constructed with, and raises KeyError for
\* every other name.
C17_Original ==
    ret.op = "getitem" =>
        IF ret.key \in DOMAIN held[ret.name].attrs
        THEN ret.val = Returned(held[ret.name].attrs[ret.key])
        ELSE ret.val = KeyError

---------------------------------------------------------------------------
(* C18 *)

\* C18 as stated: the master and the standbys of the held object
\* cs = pgsql[relid] are those of an object built now, whatever has happened
\* since cs was built.
C18_Original ==
    held["cs"] # Unbound =>
        LET cs == held["cs"]
            fresh == PostgreSQLClient_getitem(cs.relid)
        IN /\ ConnectionStrings_master(cs) = ConnectionStrings_master(fresh)
           /\ ~IterateRaises(ConnectionStrings_standbys(cs))
           /\ Iterate(ConnectionStrings_standbys(cs))
                 = Iterate(ConnectionStrings_standbys(fresh))

---------------------------------------------------------------------------
(* C19 *)

\* C19 as stated, for the states between hooks: if an availability state is
\* raised then connected is raised, and with no remote unit left in any
\* instance no availability state is raised.
C19_Original ==
    hook = NoHook =>
        LET available == IsSet(MasterAvailable) \/ IsSet(StandbysAvailable)
                            \/ IsSet(DatabaseAvailable)
        IN /\ available => IsSet(Connected)
           /\ (\A r \in RelIdSet : DOMAIN relations[r] = {}) => ~available

---------------------------------------------------------------------------
(* C20 *)

\* The index of the last "@" of the uri, or 1 (the scheme) when it has none.
LastAt(uri) ==
    IF \E i \in DOMAIN uri : uri[i] = "@"
    THEN CHOOSE i \in DOMAIN uri :
            uri[i] = "@" /\ \A j \in DOMAIN uri : uri[j] = "@" => j <= i
    ELSE 1

\* The host component of a uri: what stands after the scheme and the
\* credentials, up to the port, the database or the parameters.
HostComponent(uri) ==
    LET from == LastAt(uri) + 1
        ends == {i \in from..Len(uri) : uri[i] \in {":", "/", "?"}}
        to == IF ends = {} THEN Len(uri)
              ELSE (CHOOSE i \in ends : \A j \in ends : i <= j) - 1
    IN SubSeq(uri, from, to)

\* The host component the claim describes: from hostaddr when it is
\* supplied and from host otherwise, an IPv6 literal in brackets, an IPv4
\* literal as it is and a hostname encoded.
HostComponentOf(kw) ==
    LET v == IF "hostaddr" \in DOMAIN kw THEN kw["hostaddr"] ELSE kw["host"]
    IN IF ip_address(v) = ValueError THEN urllib_quote(v)
       ELSE IF ip_address(v).py = "IPv6Address"
            THEN <<"[">> \o ip_address(v).text \o <<"]">>
       ELSE ip_address(v).text

\* C20 as stated: the host component of the uri of a descriptor is computed
\* from hostaddr whenever hostaddr is supplied and from host only when it is
\* not; an IPv6 literal is in brackets, an IPv4 literal or a hostname is not.
C20_Original ==
    \A n \in DescriptorNames :
        (held[n] # Unbound
            /\ ("hostaddr" \in DOMAIN held[n].attrs \/ "host" \in DOMAIN held[n].attrs))
          => HostComponent(ConnectionString_uri(held[n])) = HostComponentOf(held[n].attrs)

====
